---- MODULE Spec2Model ----
(***************************************************************************)
(* Model of scripts.js of DIU-Transport: the schedule parser               *)
(* (parseSchedule), the time normalizer (normalizeTime, formatTime) and    *)
(* the filter of render.                                                   *)
(*                                                                         *)
(* Representation.  A JavaScript string is a sequence of one-character     *)
(* strings (<<"R","1">> is "R1"); the em dash of line 136 is the single    *)
(* element "EMDASH" and a tab is "TAB".  A JavaScript number is a          *)
(* fixed-point value: the integer n stands for n / Scale, and arithmetic   *)
(* on it is exact (Math.round is round-half-up on the exact value).  A     *)
(* cell is a record [t, s, n]: t = "str" with text s, t = "num" with value *)
(* n, or t = "undef" for a cell the row does not have.  NaN is not among    *)
(* the cell values.                                                        *)
(***************************************************************************)
EXTENDS Integers, Sequences, FiniteSets, TLC

VARIABLES rows, i, mode, current, routesRegular, routesFriday, pc, pre, hist,
          state, els, tin, tout

vars == <<rows, i, mode, current, routesRegular, routesFriday, pc, pre, hist,
          state, els, tin, tout>>


(***************************************************************************)
(* Bounds of the model.                                                    *)
(***************************************************************************)
(* the longest sequence of rows parseSchedule is called with *)
MaxRows == 4

(* the longest grid the page is loaded with *)
MaxUiRows == 3

(* Resolution of numbers: n stands for n / Scale. *)
Scale == 10000

(***************************************************************************)
(* Characters and strings.                                                 *)
(***************************************************************************)
Digits == <<"0", "1", "2", "3", "4", "5", "6", "7", "8", "9">>

IsDigit(c) == \E k \in 1..10 : Digits[k] = c

(* \s of the regular expressions and of String.prototype.trim *)
IsSpace(c) == c \in {" ", "TAB"}

LowerMap ==
    ("A" :> "a") @@ ("B" :> "b") @@ ("C" :> "c") @@ ("D" :> "d") @@
    ("E" :> "e") @@ ("F" :> "f") @@ ("G" :> "g") @@ ("H" :> "h") @@
    ("I" :> "i") @@ ("J" :> "j") @@ ("K" :> "k") @@ ("L" :> "l") @@
    ("M" :> "m") @@ ("N" :> "n") @@ ("O" :> "o") @@ ("P" :> "p") @@
    ("Q" :> "q") @@ ("R" :> "r") @@ ("S" :> "s") @@ ("T" :> "t") @@
    ("U" :> "u") @@ ("V" :> "v") @@ ("W" :> "w") @@ ("X" :> "x") @@
    ("Y" :> "y") @@ ("Z" :> "z")

UpperMap ==
    ("a" :> "A") @@ ("b" :> "B") @@ ("c" :> "C") @@ ("d" :> "D") @@
    ("e" :> "E") @@ ("f" :> "F") @@ ("g" :> "G") @@ ("h" :> "H") @@
    ("i" :> "I") @@ ("j" :> "J") @@ ("k" :> "K") @@ ("l" :> "L") @@
    ("m" :> "M") @@ ("n" :> "N") @@ ("o" :> "O") @@ ("p" :> "P") @@
    ("q" :> "Q") @@ ("r" :> "R") @@ ("s" :> "S") @@ ("t" :> "T") @@
    ("u" :> "U") @@ ("v" :> "V") @@ ("w" :> "W") @@ ("x" :> "X") @@
    ("y" :> "Y") @@ ("z" :> "Z")

toLowerCase(s) ==
    [k \in 1..Len(s) |-> IF s[k] \in DOMAIN LowerMap THEN LowerMap[s[k]] ELSE s[k]]

toUpperCase(s) ==
    [k \in 1..Len(s) |-> IF s[k] \in DOMAIN UpperMap THEN UpperMap[s[k]] ELSE s[k]]

(* String.prototype.trim: drop leading and trailing whitespace *)
trim(s) ==
    LET keep == {k \in 1..Len(s) : ~IsSpace(s[k])}
    IN  IF keep = {} THEN <<>>
        ELSE LET lo == CHOOSE k \in keep : \A m \in keep : k <= m
                 hi == CHOOSE k \in keep : \A m \in keep : k >= m
             IN  SubSeq(s, lo, hi)

(* String.prototype.includes *)
includes(hay, needle) ==
    \E k \in 0..(Len(hay) - Len(needle)) :
        SubSeq(hay, k + 1, k + Len(needle)) = needle

(* Array.prototype.join(" ") of a sequence of strings *)
RECURSIVE join(_)
join(parts) ==
    IF parts = <<>> THEN <<>>
    ELSE IF Len(parts) = 1 THEN parts[1]
    ELSE parts[1] \o <<" ">> \o join(Tail(parts))

(* Number.prototype.toString of a non-negative integer *)
RECURSIVE NatToString(_)
NatToString(n) ==
    IF n < 10 THEN <<Digits[n + 1]>>
    ELSE NatToString(n \div 10) \o <<Digits[(n % 10) + 1]>>

(* The digits of the fraction f / Scale, trailing zeros dropped *)
RECURSIVE FracDigits(_, _)
FracDigits(f, unit) ==
    IF f = 0 THEN <<>>
    ELSE <<Digits[(f \div unit) + 1]>> \o FracDigits(f % unit, unit \div 10)

(* Number.prototype.toString of the number n / Scale *)
NumToString(n) ==
    LET a == IF n < 0 THEN -n ELSE n
        whole == NatToString(a \div Scale)
        frac == FracDigits(a % Scale, Scale \div 10)
    IN  (IF n < 0 THEN <<"-">> ELSE <<>>) \o whole \o
        (IF frac = <<>> THEN <<>> ELSE <<".">> \o frac)

(***************************************************************************)
(* Cells and rows.                                                         *)
(***************************************************************************)
Str(s) == [t |-> "str", s |-> s, n |-> 0]
Num(n) == [t |-> "num", s |-> <<>>, n |-> n]
Undef == [t |-> "undef", s |-> <<>>, n |-> 0]

(* A row of the grid; a missing row (rows[i] undefined) has isNull set *)
Row(cells) == [isNull |-> FALSE, cells |-> cells]
NullRow == [isNull |-> TRUE, cells |-> <<>>]

(* JavaScript truthiness of a cell: "" , 0 and undefined are falsy *)
Truthy(c) ==
    \/ c.t = "str" /\ c.s # <<>>
    \/ c.t = "num" /\ c.n # 0

(* row[k] with JavaScript's 0-based k: undefined beyond the row's length *)
Cell(cells, k) == IF k + 1 <= Len(cells) THEN cells[k + 1] ELSE Undef

(* x.toString() of a string or a number *)
CellToString(c) == IF c.t = "num" THEN NumToString(c.n) ELSE c.s

(* (row[k] || "").toString().trim() *)
TrimmedCell(cells, k) ==
    IF Truthy(Cell(cells, k)) THEN trim(CellToString(Cell(cells, k))) ELSE <<>>

(***************************************************************************)
(* The regular expressions of parseSchedule.                               *)
(***************************************************************************)
(* /w1\s*w2/i.test(s) for two lower-case words w1 and w2 *)
TestWords(s, w1, w2) ==
    LET l == toLowerCase(s)
    IN  \E p \in 1..Len(l) : \E q \in p..(Len(l) + 1) :
            /\ q >= p + Len(w1)
            /\ q + Len(w2) - 1 <= Len(l)
            /\ SubSeq(l, p, p + Len(w1) - 1) = w1
            /\ \A k \in (p + Len(w1))..(q - 1) : IsSpace(l[k])
            /\ SubSeq(l, q, q + Len(w2) - 1) = w2

(* fridayMarker = /friday\s*schedule/i *)
fridayMarker(s) ==
    TestWords(s, <<"f", "r", "i", "d", "a", "y">>,
                 <<"s", "c", "h", "e", "d", "u", "l", "e">>)

(* headerRegex = /route\s*no/i *)
headerRegex(s) == TestWords(s, <<"r", "o", "u", "t", "e">>, <<"n", "o">>)

(* /route\s*details/i *)
routeDetailsRegex(s) ==
    TestWords(s, <<"r", "o", "u", "t", "e">>,
                 <<"d", "e", "t", "a", "i", "l", "s">>)

(* looksLikeRouteCode = /^[RF]\d+/i.test(c0) *)
looksLikeRouteCode(s) ==
    /\ Len(s) >= 2
    /\ s[1] \in {"R", "F", "r", "f"}
    /\ IsDigit(s[2])

(***************************************************************************)
(* formatTime and normalizeTime.                                           *)
(***************************************************************************)
(* Math.round(a / b) for a >= 0, b > 0: floor(a / b + 1/2) *)
RoundDiv(a, b) == (2 * a + b) \div (2 * b)

(* mm.toString().padStart(2, "0") *)
PadStart2(s) == IF Len(s) < 2 THEN <<"0">> \o s ELSE s

formatTime(hh, mm) ==
    LET ampm == IF hh >= 12 THEN <<"P", "M">> ELSE <<"A", "M">>
        h12 == IF hh % 12 = 0 THEN 12 ELSE hh % 12
    IN  NatToString(h12) \o <<":">> \o PadStart2(NatToString(mm)) \o <<" ">> \o ampm

(* the branch t >= 0 && t < 1: a fraction of a day *)
DayFractionTime(n) ==
    LET totalMinutes == RoundDiv(n * 24 * 60, Scale)
        hh == totalMinutes \div 60
        mm == totalMinutes % 60
    IN  formatTime(hh, mm)

(* mutation: the minutes are truncated instead of rounded *)
BareHourTimeTruncated(n) ==
    LET hh == n \div Scale
        mm == ((n - hh * Scale) * 60) \div Scale
    IN  formatTime(hh, mm)

(* the branch t > 1 && t < 24: an hour with a fractional part *)
BareHourTime(n) ==
    LET hh == n \div Scale
        mm == RoundDiv((n - hh * Scale) * 60, Scale)
    IN  formatTime(hh, mm)

(* s.replace(/\s+/g, " ") *)
RECURSIVE CollapseSpaces(_)
CollapseSpaces(s) ==
    IF s = <<>> THEN <<>>
    ELSE IF IsSpace(s[1])
         THEN IF Len(s) >= 2 /\ IsSpace(s[2])
              THEN CollapseSpaces(Tail(s))
              ELSE <<" ">> \o CollapseSpaces(Tail(s))
         ELSE <<s[1]>> \o CollapseSpaces(Tail(s))

IsAmPm(s) == toLowerCase(s) \in {<<"a", "m">>, <<"p", "m">>}

(* the number of leading digits of s when s starts \d{1,2} followed by sep
   and \d{2}, else 0 *)
LeadDigits(s, sep) ==
    IF \E k \in {1, 2} :
           /\ Len(s) >= k + 3
           /\ \A m \in 1..k : IsDigit(s[m])
           /\ s[k + 1] = sep
           /\ IsDigit(s[k + 2]) /\ IsDigit(s[k + 3])
    THEN CHOOSE k \in {1, 2} :
           /\ Len(s) >= k + 3
           /\ \A m \in 1..k : IsDigit(s[m])
           /\ s[k + 1] = sep
           /\ IsDigit(s[k + 2]) /\ IsDigit(s[k + 3])
    ELSE 0

(* /^(\d{1,2})\.(\d{2})\s*(AM|PM)$/i.test(s) *)
DottedRegex(s) ==
    LET k == LeadDigits(s, ".")
    IN  /\ k > 0
        /\ Len(s) >= k + 5
        /\ IsAmPm(SubSeq(s, Len(s) - 1, Len(s)))
        /\ \A m \in (k + 4)..(Len(s) - 2) : IsSpace(s[m])

(* mutation: the suffix is put right after the minutes *)
ReplaceDottedNoSpace(s) ==
    IF DottedRegex(s)
    THEN LET k == LeadDigits(s, ".")
         IN  SubSeq(s, 1, k) \o <<":">> \o SubSeq(s, k + 2, k + 3)
                 \o SubSeq(s, Len(s) - 1, Len(s))
    ELSE s

(* s.replace(/^(\d{1,2})\.(\d{2})\s*(AM|PM)$/i, "$1:$2 $3") *)
ReplaceDotted(s) ==
    IF DottedRegex(s)
    THEN LET k == LeadDigits(s, ".")
         IN  SubSeq(s, 1, k) \o <<":">> \o SubSeq(s, k + 2, k + 3) \o <<" ">>
                 \o SubSeq(s, Len(s) - 1, Len(s))
    ELSE s

(* /^\d{1,2}:\d{2}(\s?(AM|PM))?$/i.test(s) *)
ClockRegex(s) ==
    LET k == LeadDigits(s, ":")
        rest == SubSeq(s, k + 4, Len(s))
    IN  /\ k > 0
        /\ \/ rest = <<>>
           \/ Len(rest) = 2 /\ IsAmPm(rest)
           \/ Len(rest) = 3 /\ IsSpace(rest[1]) /\ IsAmPm(SubSeq(rest, 2, 3))

(* mutation: a 24-hour H:MM without suffix is rewritten to the 12-hour form *)
NormalizeStringTo12h(s0) ==
    LET s == trim(CollapseSpaces(s0))
        k == LeadDigits(s, ":")
        val(c) == CHOOSE d \in 0..9 : Digits[d + 1] = c
    IN  IF k > 0 /\ Len(s) = k + 3
        THEN formatTime(IF k = 1 THEN val(s[1]) ELSE 10 * val(s[1]) + val(s[2]),
                        10 * val(s[k + 2]) + val(s[k + 3]))
        ELSE s

(* lines 161-170: the string path, from the text of t.toString() *)
NormalizeString(s0) ==
    LET s == trim(CollapseSpaces(s0))
    IN  IF includes(toLowerCase(s), <<"t", "o">>) THEN s
        ELSE LET r == ReplaceDotted(s)
             IN  IF ClockRegex(r) THEN toUpperCase(r) ELSE r

(* mutation: the bare-hour branch takes 1 and 24 as well *)
normalizeTimeClosedRange(t) ==
    IF t.t = "undef" \/ (t.t = "str" /\ t.s = <<>>) THEN <<>>
    ELSE IF t.t = "num" /\ t.n >= 0 /\ t.n < Scale THEN DayFractionTime(t.n)
    ELSE IF t.t = "num" /\ t.n >= Scale /\ t.n <= 24 * Scale THEN BareHourTime(t.n)
    ELSE NormalizeString(CellToString(t))

normalizeTime(t) ==
    IF t.t = "undef" \/ (t.t = "str" /\ t.s = <<>>) THEN <<>>
    ELSE IF t.t = "num" /\ t.n >= 0 /\ t.n < Scale THEN DayFractionTime(t.n)
    ELSE IF t.t = "num" /\ t.n > Scale /\ t.n < 24 * Scale THEN BareHourTime(t.n)
    ELSE NormalizeString(CellToString(t))

(***************************************************************************)
(* parseSchedule: the state of one call and the handling of one row.       *)
(*                                                                         *)
(* A route object is a record; its field row is the identity of the object *)
(* (the index of the row whose object literal, line 116, created it).      *)
(* display is the empty string until the pass after the loop sets it.      *)
(* current refers to a route by the list that holds it and its place       *)
(* there; part = "none" is null.                                           *)
(***************************************************************************)
NoCurrent == [part |-> "none", idx |-> 0]

(* mutation: rows[i] is used as it is *)
RowUnguarded(r) == r

(* const row = rows[i] || [] *)
RowOrEmpty(r) == IF r.isNull THEN Row(<<>>) ELSE r

(* !c0 && !c1 && !c2 && !c3 && !c4 *)
AllEmpty(cells) ==
    /\ TrimmedCell(cells, 0) = <<>>
    /\ ~Truthy(Cell(cells, 1))
    /\ TrimmedCell(cells, 2) = <<>>
    /\ TrimmedCell(cells, 3) = <<>>
    /\ ~Truthy(Cell(cells, 4))

(* mutation: the route-code test comes before the marker and header tests *)
RowKindCodeFirst(row, hasCurrent) ==
    IF row.isNull THEN "TypeError"
    ELSE LET c0 == TrimmedCell(row.cells, 0)
             c3 == TrimmedCell(row.cells, 3)
         IN  IF AllEmpty(row.cells) THEN "empty"
             ELSE IF looksLikeRouteCode(c0) THEN "open"
             ELSE IF fridayMarker(c0) THEN "marker"
             ELSE IF headerRegex(c0) \/ routeDetailsRegex(c3) THEN "header"
             ELSE IF hasCurrent /\ c0 = <<>> THEN "continuation"
             ELSE "ignored"

(* mutation: any row that opens nothing continues the current route *)
RowKindLoose(row, hasCurrent) ==
    IF row.isNull THEN "TypeError"
    ELSE LET c0 == TrimmedCell(row.cells, 0)
             c3 == TrimmedCell(row.cells, 3)
         IN  IF AllEmpty(row.cells) THEN "empty"
             ELSE IF fridayMarker(c0) THEN "marker"
             ELSE IF headerRegex(c0) \/ routeDetailsRegex(c3) THEN "header"
             ELSE IF looksLikeRouteCode(c0) THEN "open"
             ELSE IF hasCurrent THEN "continuation"
             ELSE "ignored"

(* The branch of the loop body a row takes.  Reading row[0] of an
   undefined row raises a TypeError: the call is left, no branch is taken. *)
RowKind(row, hasCurrent) ==
    IF row.isNull THEN "TypeError"
    ELSE LET c0 == TrimmedCell(row.cells, 0)
             c3 == TrimmedCell(row.cells, 3)
         IN  IF AllEmpty(row.cells) THEN "empty"
             ELSE IF fridayMarker(c0) THEN "marker"
             ELSE IF headerRegex(c0) \/ routeDetailsRegex(c3) THEN "header"
             ELSE IF looksLikeRouteCode(c0) THEN "open"
             ELSE IF hasCurrent /\ c0 = <<>> THEN "continuation"
             ELSE "ignored"

(* if (c1) r.toDSC.push(normalizeTime(c1));
   if (c4) r.fromDSC.push(normalizeTime(c4)); *)
PushTimes(r, c1, c4) ==
    [r EXCEPT !.toDSC = IF Truthy(c1) THEN Append(@, normalizeTime(c1)) ELSE @,
              !.fromDSC = IF Truthy(c4) THEN Append(@, normalizeTime(c4)) ELSE @]

(* mutation: the list is chosen by the leading letter of the code *)
TargetListByCode(m, code) ==
    IF code # <<>> /\ code[1] \in {"F", "f"} THEN "friday" ELSE "regular"

(* the list a new route is pushed to *)
TargetList(m, code) == IF m = "friday" THEN "friday" ELSE "regular"

ParserState ==
    [mode |-> mode, current |-> current,
     routesRegular |-> routesRegular, routesFriday |-> routesFriday]

(* lines 103-107 *)
MarkerRow(st) == [st EXCEPT !.mode = "friday", !.current = NoCurrent]

(* mutation: a header row leaves current as it is *)
HeaderRowKeepsCurrent(st) == st

(* mutation: a header row starts the regular schedule again *)
HeaderRowResetsMode(st) == [st EXCEPT !.mode = "regular", !.current = NoCurrent]

(* lines 109-112 *)
HeaderRow(st) == [st EXCEPT !.current = NoCurrent]

(* mutation: an opening row whose code is already in the list reopens that
   route instead of creating one *)
OpenRowMerging(st, cells, at) ==
    LET code == TrimmedCell(cells, 0)
        list == IF st.mode = "friday" THEN st.routesFriday ELSE st.routesRegular
        same == {k \in 1..Len(list) : list[k].code = code}
        r == PushTimes([code |-> code,
                        name |-> TrimmedCell(cells, 2),
                        details |-> TrimmedCell(cells, 3),
                        toDSC |-> <<>>, fromDSC |-> <<>>,
                        display |-> <<>>, row |-> at],
                       Cell(cells, 1), Cell(cells, 4))
    IN  IF same # {}
        THEN [st EXCEPT !.current = [part |-> st.mode,
                                     idx |-> CHOOSE k \in same : TRUE]]
        ELSE IF st.mode = "friday"
        THEN [st EXCEPT !.routesFriday = Append(@, r),
                        !.current = [part |-> "friday",
                                     idx |-> Len(st.routesFriday) + 1]]
        ELSE [st EXCEPT !.routesRegular = Append(@, r),
                        !.current = [part |-> "regular",
                                     idx |-> Len(st.routesRegular) + 1]]

(* mutation: the new route is put at the front of its list *)
OpenRowUnshift(st, cells, at) ==
    LET r == PushTimes([code |-> TrimmedCell(cells, 0),
                        name |-> TrimmedCell(cells, 2),
                        details |-> TrimmedCell(cells, 3),
                        toDSC |-> <<>>, fromDSC |-> <<>>,
                        display |-> <<>>, row |-> at],
                       Cell(cells, 1), Cell(cells, 4))
    IN  IF st.mode = "friday"
        THEN [st EXCEPT !.routesFriday = <<r>> \o @,
                        !.current = [part |-> "friday", idx |-> 1]]
        ELSE [st EXCEPT !.routesRegular = <<r>> \o @,
                        !.current = [part |-> "regular", idx |-> 1]]

(* lines 114-127 *)
OpenRow(st, cells, at) ==
    LET r == PushTimes([code |-> TrimmedCell(cells, 0),
                        name |-> TrimmedCell(cells, 2),
                        details |-> TrimmedCell(cells, 3),
                        toDSC |-> <<>>, fromDSC |-> <<>>,
                        display |-> <<>>, row |-> at],
                       Cell(cells, 1), Cell(cells, 4))
    IN  IF TargetList(st.mode, r.code) = "friday"
        THEN [st EXCEPT !.routesFriday = Append(@, r),
                        !.current = [part |-> "friday",
                                     idx |-> Len(st.routesFriday) + 1]]
        ELSE [st EXCEPT !.routesRegular = Append(@, r),
                        !.current = [part |-> "regular",
                                     idx |-> Len(st.routesRegular) + 1]]

(* mutation: the times go to the first route of the list that holds current *)
ContinuationRowFirst(st, cells) ==
    IF st.current.part = "friday"
    THEN [st EXCEPT !.routesFriday[1] =
                        PushTimes(@, Cell(cells, 1), Cell(cells, 4))]
    ELSE [st EXCEPT !.routesRegular[1] =
                        PushTimes(@, Cell(cells, 1), Cell(cells, 4))]

(* lines 129-132 *)
ContinuationRow(st, cells) ==
    IF st.current.part = "friday"
    THEN [st EXCEPT !.routesFriday[st.current.idx] =
                        PushTimes(@, Cell(cells, 1), Cell(cells, 4))]
    ELSE [st EXCEPT !.routesRegular[st.current.idx] =
                        PushTimes(@, Cell(cells, 1), Cell(cells, 4))]

(* one iteration of the loop of lines 93-133 *)
LoopBody(st, r, at) ==
    LET row == RowOrEmpty(r)
        kind == RowKind(row, st.current.part # "none")
    IN  CASE kind = "marker" -> MarkerRow(st)
          [] kind = "header" -> HeaderRow(st)
          [] kind = "open" -> OpenRow(st, row.cells, at)
          [] kind = "continuation" -> ContinuationRow(st, row.cells)
          [] OTHER -> st

(* mutation: the last occurrence of each value is the one kept *)
RECURSIVE DedupKeepLast(_)
DedupKeepLast(s) ==
    IF s = <<>> THEN <<>>
    ELSE LET d == DedupKeepLast(Tail(s))
             x == s[1]
         IN  IF \E k \in 1..Len(d) : d[k] = x THEN d ELSE <<x>> \o d

(* Array.from(new Set(s)): the first occurrence of each value, in order *)
RECURSIVE Dedup(_)
Dedup(s) ==
    IF s = <<>> THEN <<>>
    ELSE LET d == Dedup(SubSeq(s, 1, Len(s) - 1))
             x == s[Len(s)]
         IN  IF \E k \in 1..Len(d) : d[k] = x THEN d ELSE Append(d, x)

(* the body of the loop of lines 135-139, for one route *)
PostPassRoute(r) ==
    [r EXCEPT !.display = IF r.name # <<>>
                          THEN trim(r.code \o <<" ", "EMDASH", " ">> \o r.name)
                          ELSE trim(r.code),
              !.toDSC = Dedup(@),
              !.fromDSC = Dedup(@)]

PostPass(routes) == [k \in 1..Len(routes) |-> PostPassRoute(routes[k])]

(* parseSchedule(rows), as a function of its argument: after[k] is the state
   of the locals when the loop has done rows 0..k-1 *)
parseSchedule(rs) ==
    LET after[k \in 0..Len(rs)] ==
            IF k = 0
            THEN [mode |-> "regular", current |-> NoCurrent,
                  routesRegular |-> <<>>, routesFriday |-> <<>>]
            ELSE LoopBody(after[k - 1], rs[k], k - 1)
        st == after[Len(rs)]
    IN  [regular |-> PostPass(st.routesRegular),
         friday |-> PostPass(st.routesFriday)]

(***************************************************************************)
(* The rows the parser is run on.                                          *)
(***************************************************************************)
sFridaySchedule == <<"F", "r", "i", "d", "a", "y", " ", "S", "c", "h", "e", "d", "u", "l", "e">>
sR1 == <<"R", "1">>
sF2 == <<"F", "2">>
s0800 == <<"0", "8", ":", "0", "0">>
s0900 == <<"0", "9", ":", "0", "0">>
sMainRoute == <<"M", "a", "i", "n", " ", "R", "o", "u", "t", "e">>
sCampus == <<"C", "a", "m", "p", "u", "s">>
sViaX == <<"V", "i", "a", " ", "X">>
sRouteNo == <<"R", "o", "u", "t", "e", " ", "N", "o">>
sRouteDetails == <<"R", "o", "u", "t", "e", " ", "D", "e", "t", "a", "i", "l", "s">>
sNote == <<"N", "o", "t", "e">>
sF1FridaySchedule == <<"F", "1", " ", "F", "r", "i", "d", "a", "y", " ", "S", "c", "h", "e", "d", "u", "l", "e">>
sEmpty == <<>>

RowSet ==
    { NullRow,
      Row(<<>>),
      Row(<<Str(sFridaySchedule)>>),
      Row(<<Str(sR1), Str(s0800), Str(sMainRoute), Str(sViaX), Num(7500)>>),
      Row(<<Str(sEmpty), Str(s0900), Str(sEmpty), Str(sEmpty), Num(8000)>>),
      Row(<<Str(sRouteNo), Str(sEmpty), Str(sEmpty), Str(sRouteDetails)>>),
      Row(<<Str(sNote), Str(s0900)>>),
      Row(<<Str(sF2), Num(0), Str(sCampus), Str(sEmpty), Num(185000)>>),
      Row(<<Str(sR1), Str(s0900), Str(sEmpty), Str(sRouteDetails)>>),
      Row(<<Str(sEmpty), Str(<<" ">>), Str(sEmpty), Str(sEmpty), Num(7500)>>),
      Row(<<Str(sF1FridaySchedule), Str(s0800)>>) }

RECURSIVE SeqsUpTo(_, _)
SeqsUpTo(S, n) ==
    IF n = 0 THEN {<<>>}
    ELSE LET shorter == SeqsUpTo(S, n - 1)
         IN  shorter \cup {Append(q, x) : q \in shorter, x \in S}

(***************************************************************************)
(* Spec: one call of parseSchedule, a row at a time.                       *)
(***************************************************************************)
UiIdle == [regular |-> <<>>, friday |-> <<>>, all |-> <<>>]
NoResults == [shown |-> "nothing", filtered |-> <<>>, cards |-> <<>>]
ElsIdle == [selectRoute |-> <<>>, options |-> <<<<>>>>, inputSearch |-> <<>>,
            toggleFriday |-> FALSE, results |-> NoResults]

Init ==
    /\ rows \in SeqsUpTo(RowSet, MaxRows)
    /\ i = 0
    /\ mode = "regular"
    /\ current = NoCurrent
    /\ routesRegular = <<>>
    /\ routesFriday = <<>>
    /\ pc = "loop"
    /\ pre = [regular |-> <<>>, friday |-> <<>>]
    /\ hist = <<>>
    /\ state = UiIdle
    /\ els = ElsIdle
    /\ tin = Undef
    /\ tout = <<>>

(* the row the loop is at, after line 94 *)
ThisRow == RowOrEmpty(rows[i + 1])

ThisKind == RowKind(ThisRow, current.part # "none")

(* the route current refers to *)
CurrentRoute ==
    IF current.part = "friday" THEN routesFriday[current.idx]
    ELSE routesRegular[current.idx]

(* History, kept for the properties only: for each row processed, the branch
   it took, the mode it was processed in, and the identity of the route it
   gave times to (-1 when none). *)
Event ==
    [kind |-> ThisKind, mode |-> mode,
     target |-> IF ThisKind = "open" THEN i
                ELSE IF ThisKind = "continuation" THEN CurrentRoute.row
                ELSE -1]

Apply(st) ==
    /\ hist' = Append(hist, Event)
    /\ mode' = st.mode
    /\ current' = st.current
    /\ routesRegular' = st.routesRegular
    /\ routesFriday' = st.routesFriday
    /\ i' = i + 1
    /\ UNCHANGED <<rows, pc, pre, state, els, tin, tout>>

InLoop == pc = "loop" /\ i < Len(rows)

(* line 101: continue *)
SkipEmpty == InLoop /\ ThisKind = "empty" /\ Apply(ParserState)

FridayMarker == InLoop /\ ThisKind = "marker" /\ Apply(MarkerRow(ParserState))

Header == InLoop /\ ThisKind = "header" /\ Apply(HeaderRow(ParserState))

Open == InLoop /\ ThisKind = "open" /\ Apply(OpenRow(ParserState, ThisRow.cells, i))

Continuation ==
    InLoop /\ ThisKind = "continuation"
           /\ Apply(ContinuationRow(ParserState, ThisRow.cells))

(* no branch taken: the row is dropped *)
Ignore == InLoop /\ ThisKind = "ignored" /\ Apply(ParserState)

(* lines 135-141: the pass over all routes, and the return *)
Return ==
    /\ pc = "loop" /\ i = Len(rows)
    /\ pre' = [regular |-> routesRegular, friday |-> routesFriday]
    /\ routesRegular' = PostPass(routesRegular)
    /\ routesFriday' = PostPass(routesFriday)
    /\ pc' = "done"
    /\ UNCHANGED <<rows, i, mode, current, hist, state, els, tin, tout>>

Next ==
    \/ SkipEmpty
    \/ FridayMarker
    \/ Header
    \/ Open
    \/ Continuation
    \/ Ignore
    \/ Return

Spec == Init /\ [][Next]_vars

(***************************************************************************)
(* TimeSpec: one call of normalizeTime.  The numeric arguments are all the *)
(* numbers of the resolution from -1 to 25.  The string arguments are put  *)
(* together from a leading pad, an hour, a separator, minutes, a gap, a    *)
(* suffix and a trailing pad, each of which may be missing or malformed.   *)
(* undefined (a cell the row does not have) is an argument too.            *)
(***************************************************************************)
s530to600PM == <<"5", ":", "3", "0", " ", "t", "o", " ", "6", ":", "0", "0", " ", "P", "M">>
s605pm == <<"6", ".", "0", "5", "p", "m">>

TimePads == {<<>>, <<" ">>, <<"TAB", " ">>}
TimeHours == {<<>>, <<"6">>, <<"1", "2">>, <<"1", "2", "3">>}
TimeSeparators == {<<".">>, <<":">>, <<" ", "t", "o", " ">>}
TimeMinutes == {<<"0", "5">>, <<"5">>}
TimeGaps == {<<>>, <<" ">>, <<" ", " ">>, <<"TAB">>}
TimeSuffixes == {<<>>, <<"p", "m">>, <<"A", "M">>, <<"P", "m">>, <<"T", "O">>, <<"x">>}

TimeStrings ==
    {a \o h \o c \o m \o g \o x \o b :
        a \in TimePads, h \in TimeHours, c \in TimeSeparators,
        m \in TimeMinutes, g \in TimeGaps, x \in TimeSuffixes,
        b \in {<<>>, <<" ">>}}
    \cup {<<>>, <<" ">>, s530to600PM, s605pm}

TimeInputs == {Num(n) : n \in (-Scale)..(25 * Scale)}

TimeTextInputs == {Str(x) : x \in TimeStrings} \cup {Undef}

TimeInit ==
    /\ tin \in TimeInputs \/ tin \in TimeTextInputs
    /\ tout = <<>>
    /\ pc = "call"
    /\ rows = <<>>
    /\ i = 0
    /\ mode = "regular"
    /\ current = NoCurrent
    /\ routesRegular = <<>>
    /\ routesFriday = <<>>
    /\ pre = [regular |-> <<>>, friday |-> <<>>]
    /\ hist = <<>>
    /\ state = UiIdle
    /\ els = ElsIdle

Normalize ==
    /\ pc = "call"
    /\ tout' = normalizeTime(tin)
    /\ pc' = "returned"
    /\ UNCHANGED <<tin, rows, i, mode, current, routesRegular, routesFriday,
                   pre, hist, state, els>>

TimeNext == Normalize

TimeSpec == TimeInit /\ [][TimeNext]_vars

(***************************************************************************)
(* UiSpec: the page.  state holds the parsed lists; els holds what the     *)
(* handlers read and write of the elements: the value and the option       *)
(* values of the route select, the search text, the Friday checkbox, and   *)
(* the results.  results.filtered is render's local filtered when it       *)
(* returns, results.cards the cards made of it.  escapeHtml and the        *)
(* footer are left out.                                                    *)
(***************************************************************************)
(* lines 204-221: the two filters of render *)
Hay(r) == toLowerCase(join(<<r.code, r.name, r.details>> \o r.toDSC \o r.fromDSC))

(* list.filter((r) => r.code === selectedCode) *)
RECURSIVE FilterByCode(_, _)
FilterByCode(list, selectedCode) ==
    IF list = <<>> THEN <<>>
    ELSE (IF list[1].code = selectedCode THEN <<list[1]>> ELSE <<>>)
             \o FilterByCode(Tail(list), selectedCode)

(* mutation: the haystack keeps its case *)
RECURSIVE FilterByTextCaseSensitive(_, _)
FilterByTextCaseSensitive(list, q) ==
    IF list = <<>> THEN <<>>
    ELSE (IF includes(join(<<list[1].code, list[1].name, list[1].details>>
                               \o list[1].toDSC \o list[1].fromDSC), q)
          THEN <<list[1]>> ELSE <<>>)
             \o FilterByTextCaseSensitive(Tail(list), q)

(* list.filter((r) => hay.includes(q)) *)
RECURSIVE FilterByText(_, _)
FilterByText(list, q) ==
    IF list = <<>> THEN <<>>
    ELSE (IF includes(Hay(list[1]), q) THEN <<list[1]>> ELSE <<>>)
             \o FilterByText(Tail(list), q)

Filter(list, selectedCode, q) ==
    LET f1 == IF selectedCode # <<>> THEN FilterByCode(list, selectedCode) ELSE list
    IN  IF q # <<>> THEN FilterByText(f1, q) ELSE f1

(* lines 231-258: what a card shows *)
routeCard(r) ==
    [display |-> r.display,
     badge |-> IF r.code # <<>> /\ r.code[1] = "F" THEN "Friday" ELSE "Regular",
     details |-> IF r.details # <<>> THEN r.details ELSE <<"EMDASH">>,
     toChips |-> r.toDSC,
     fromChips |-> r.fromDSC]

(* lines 198-229, on the lists st and the elements e *)
Render(st, e) ==
    LET list == IF e.toggleFriday THEN st.friday ELSE st.regular
        q == toLowerCase(e.inputSearch)
        filtered == Filter(list, e.selectRoute, q)
    IN  [e EXCEPT !.results =
            IF Len(filtered) = 0
            THEN [shown |-> "nomatch", filtered |-> filtered, cards |-> <<>>]
            ELSE [shown |-> "cards", filtered |-> filtered,
                  cards |-> [k \in 1..Len(filtered) |-> routeCard(filtered[k])]]]

(* lines 179-191; replacing the options leaves the first one selected *)
PopulateRouteDropdown(st, e) ==
    LET list == IF e.toggleFriday THEN st.friday ELSE st.regular
    IN  [e EXCEPT !.options = <<<<>>>> \o [k \in 1..Len(list) |-> list[k].code],
                  !.selectRoute = <<>>]

sR2 == <<"R", "2">>
sMain == <<"M", "a", "i", "n">>
sMainLower == <<"m", "a", "i", "n">>
sZzz == <<"z", "z", "z">>
s600pmLower == <<"6", ":", "0", "0", " ", "p", "m">>

UiRowSet ==
    { Row(<<Str(sFridaySchedule)>>),
      Row(<<Str(sR1), Str(s0800), Str(sMain), Str(sViaX), Num(7500)>>),
      Row(<<Str(sR2), Str(s0900), Str(sCampus), Str(sEmpty), Num(8000)>>),
      Row(<<Str(sF2), Str(s0900), Str(sMainRoute), Str(sEmpty), Num(7500)>>) }

SearchTexts == {<<>>, sMain, sMainLower, sZzz, s600pmLower}

UiInit ==
    /\ state = UiIdle
    /\ els = ElsIdle
    /\ pc = "loading"
    /\ rows = <<>>
    /\ i = 0
    /\ mode = "regular"
    /\ current = NoCurrent
    /\ routesRegular = <<>>
    /\ routesFriday = <<>>
    /\ pre = [regular |-> <<>>, friday |-> <<>>]
    /\ hist = <<>>
    /\ tin = Undef
    /\ tout = <<>>

UiFrame == UNCHANGED <<i, mode, current, routesRegular, routesFriday, pre, hist,
                       tin, tout>>

(* lines 61-82: ingestWorkbook, once the file is fetched and read *)
IngestWorkbook ==
    /\ pc = "loading"
    /\ \E rs \in SeqsUpTo(UiRowSet, MaxUiRows) :
       \E parsed \in {parseSchedule(rs)} :
       \E st \in {[regular |-> parsed.regular, friday |-> parsed.friday,
                   all |-> parsed.regular \o parsed.friday]} :
       \E populated \in {PopulateRouteDropdown(st, els)} :
           /\ rows' = rs
           /\ state' = st
           /\ els' = Render(st, populated)
    /\ pc' = "ready"
    /\ UiFrame

(* lines 50-53: the fetch fails *)
LoadFails ==
    /\ pc = "loading"
    /\ pc' = "failed"
    /\ UNCHANGED <<rows, state, els>>
    /\ UiFrame

(* line 32: the select changes *)
ChangeRoute ==
    /\ \E k \in 1..Len(els.options) :
           /\ els.options[k] # els.selectRoute
           /\ els' = Render(state, [els EXCEPT !.selectRoute = els.options[k]])
    /\ UNCHANGED <<rows, state, pc>>
    /\ UiFrame

(* line 33: the search text changes *)
InputSearch ==
    /\ \E q \in SearchTexts :
           /\ q # els.inputSearch
           /\ els' = Render(state, [els EXCEPT !.inputSearch = q])
    /\ UNCHANGED <<rows, state, pc>>
    /\ UiFrame

(* lines 34-37: the Friday checkbox changes *)
ToggleFriday ==
    /\ \E populated \in {PopulateRouteDropdown(state,
                              [els EXCEPT !.toggleFriday = ~els.toggleFriday])} :
           els' = Render(state, populated)
    /\ UNCHANGED <<rows, state, pc>>
    /\ UiFrame

UiNext ==
    \/ IngestWorkbook
    \/ LoadFails
    \/ ChangeRoute
    \/ InputSearch
    \/ ToggleFriday

UiSpec == UiInit /\ [][UiNext]_vars

(***************************************************************************)
(* Properties of parseSchedule (under Spec).                               *)
(***************************************************************************)
Done == pc = "done"

AllRoutes == routesRegular \o routesFriday

RouteIds == {AllRoutes[k].row : k \in 1..Len(AllRoutes)}

RouteById(id) ==
    AllRoutes[CHOOSE k \in 1..Len(AllRoutes) : AllRoutes[k].row = id]

Elems(q) == {q[k] : k \in 1..Len(q)}

(* cell k of input row j (both 0-based); a missing row has no cells *)
InputCell(j, k) == Cell(rows[j + 1].cells, k)

(* a Friday-schedule marker row occurs among the input rows 0..k-1 *)
MarkerBefore(k) ==
    \E j \in 0..(k - 1) :
        /\ ~rows[j + 1].isNull
        /\ fridayMarker(TrimmedCell(rows[j + 1].cells, 0))

(* C1: a route is in the friday list iff the mode was "friday" when its
   opening row was processed, that is iff a Friday-schedule marker row
   precedes its opening row, whatever the letter of its code; otherwise it
   is in the regular list; no route is in both lists. *)
PartitionInvariant ==
    /\ (mode = "friday") <=> MarkerBefore(i)
    /\ \A k \in 1..Len(routesFriday) :
           /\ MarkerBefore(routesFriday[k].row)
           /\ hist[routesFriday[k].row + 1].mode = "friday"
    /\ \A k \in 1..Len(routesRegular) :
           /\ ~MarkerBefore(routesRegular[k].row)
           /\ hist[routesRegular[k].row + 1].mode = "regular"
    /\ \A a \in 1..Len(routesFriday) : \A b \in 1..Len(routesRegular) :
           routesFriday[a].row # routesRegular[b].row
    /\ \A j \in 1..Len(hist) :
           hist[j].kind = "open" => (j - 1) \in RouteIds

(* a returned friday list holding an R route and a regular list holding an
   F route *)
PartitionWitness ==
    /\ Done
    /\ \E k \in 1..Len(routesFriday) : routesFriday[k].code[1] = "R"
    /\ \E k \in 1..Len(routesRegular) : routesRegular[k].code[1] = "F"

FirstIndex(q, x) ==
    CHOOSE k \in 1..Len(q) : q[k] = x /\ \A m \in 1..(k - 1) : q[m] # x

(* final holds each value of pushed once, in order of first appearance *)
IsOrderedDedup(final, pushed) ==
    /\ \A a, b \in 1..Len(final) : a # b => final[a] # final[b]
    /\ Elems(final) = Elems(pushed)
    /\ \A a, b \in 1..Len(final) :
           a < b => FirstIndex(pushed, final[a]) < FirstIndex(pushed, final[b])

(* C2: in every returned route toDSC holds each distinct time pushed for
   the route exactly once, in order of first appearance, and nothing that
   was not pushed; the same for fromDSC. *)
DedupOrder ==
    Done =>
        /\ Len(routesRegular) = Len(pre.regular)
        /\ Len(routesFriday) = Len(pre.friday)
        /\ \A k \in 1..Len(routesRegular) :
               /\ IsOrderedDedup(routesRegular[k].toDSC, pre.regular[k].toDSC)
               /\ IsOrderedDedup(routesRegular[k].fromDSC, pre.regular[k].fromDSC)
        /\ \A k \in 1..Len(routesFriday) :
               /\ IsOrderedDedup(routesFriday[k].toDSC, pre.friday[k].toDSC)
               /\ IsOrderedDedup(routesFriday[k].fromDSC, pre.friday[k].fromDSC)

(* a returned route for which a value was pushed, then another, then the
   first again *)
DedupOrderWitness ==
    /\ Done
    /\ \E k \in 1..Len(routesRegular) :
           LET p == pre.regular[k].fromDSC
           IN  /\ Len(p) = 3 /\ p[1] = p[3] /\ p[1] # p[2]
               /\ routesRegular[k].fromDSC = <<p[1], p[2]>>

ScenarioRows ==
    << Row(<<Str(sFridaySchedule)>>),
       Row(<<>>),
       Row(<<Str(sR1), Str(s0800), Str(sMainRoute), Str(sViaX), Num(7500)>>),
       Row(<<Str(sEmpty), Str(s0900), Str(sEmpty), Str(sEmpty), Num(8000)>> ) >>

s600PM == <<"6", ":", "0", "0", " ", "P", "M">>
s712PM == <<"7", ":", "1", "2", " ", "P", "M">>
s800AM == <<"8", ":", "0", "0", " ", "A", "M">>
s900AM == <<"9", ":", "0", "0", " ", "A", "M">>

(* the scenario's result, but for toDSC *)
ScenarioRoute(r) ==
    /\ r.code = sR1 /\ r.name = sMainRoute /\ r.details = sViaX
    /\ r.fromDSC = <<s600PM, s712PM>>

(* a string of the form DD:DD *)
IsHHMM(s) ==
    /\ Len(s) = 5
    /\ IsDigit(s[1]) /\ IsDigit(s[2]) /\ s[3] = ":"
    /\ IsDigit(s[4]) /\ IsDigit(s[5])

(* the rows that gave route id its times and hold a DD:DD string in cell 1 *)
HHMMRows(id) ==
    {j \in 0..(Len(hist) - 1) :
        /\ hist[j + 1].target = id
        /\ InputCell(j, 1).t = "str"
        /\ IsHHMM(InputCell(j, 1).s)}

(* C3 as stated: the scenario yields regular = [] and one friday route with
   toDSC = ["8:00 AM", "9:00 AM"]; a string time HH:MM of an opening or
   continuation row is in the time list in its 12-hour form. *)
ScenarioAsStated ==
    /\ (Done /\ rows = ScenarioRows) =>
           /\ routesRegular = <<>>
           /\ Len(routesFriday) = 1
           /\ ScenarioRoute(routesFriday[1])
           /\ routesFriday[1].toDSC = <<s800AM, s900AM>>
    /\ \A id \in RouteIds : \A j \in HHMMRows(id) :
           \E x \in Elems(RouteById(id).toDSC) :
               x \in {s800AM, s900AM} /\ x # InputCell(j, 1).s

(* C3, amended: the scenario yields regular = [] and one friday route R1,
   "Main Route", "Via X", with fromDSC = ["6:00 PM", "7:12 PM"] and
   toDSC = ["08:00", "09:00"]; a string time HH:MM of an opening or
   continuation row is in the time list as written, and not in a 12-hour
   form. *)
ScenarioAmended ==
    /\ (Done /\ rows = ScenarioRows) =>
           /\ routesRegular = <<>>
           /\ Len(routesFriday) = 1
           /\ ScenarioRoute(routesFriday[1])
           /\ routesFriday[1].toDSC = <<s0800, s0900>>
    /\ \A id \in RouteIds : \A j \in HHMMRows(id) :
           /\ InputCell(j, 1).s \in Elems(RouteById(id).toDSC)
           /\ \A x \in Elems(RouteById(id).toDSC) : x \notin {s800AM, s900AM}

ScenarioWitness ==
    /\ Done /\ rows = ScenarioRows
    /\ HHMMRows(2) = {2, 3}

(* a cell that holds something: a non-empty string or any number *)
NonEmptyCell(c) == (c.t = "str" /\ c.s # <<>>) \/ c.t = "num"

(* the rows that opened or continued a route *)
TimeRows == {j \in 0..(Len(hist) - 1) : hist[j + 1].target # -1}

(* C4: for every opening row and every continuation row, a non-empty cell 1
   (a non-empty string or any number, the day fraction 0 included) is
   normalized and pushed onto the route's toDSC, and a non-empty cell 4 onto
   its fromDSC, so the value is in the route's final list. *)
NonEmptyTimePushed ==
    \A j \in TimeRows :
        LET r == RouteById(hist[j + 1].target)
        IN  /\ NonEmptyCell(InputCell(j, 1)) =>
                   normalizeTime(InputCell(j, 1)) \in Elems(r.toDSC)
            /\ NonEmptyCell(InputCell(j, 4)) =>
                   normalizeTime(InputCell(j, 4)) \in Elems(r.fromDSC)

(* the codes of a list, with the number of routes carrying each *)
CodeCount(list, code) == Cardinality({k \in 1..Len(list) : list[k].code = code})

(* the opening rows processed in mode m whose trimmed cell 0 is code *)
OpeningRows(m, code) ==
    {j \in 0..(Len(hist) - 1) :
        /\ hist[j + 1].kind = "open"
        /\ hist[j + 1].mode = m
        /\ TrimmedCell(rows[j + 1].cells, 0) = code}

(* C5 as stated: no two routes of the regular list share a code, no two
   routes of the friday list share a code, and every code is non-empty. *)
CodeUnique ==
    /\ \A a, b \in 1..Len(routesRegular) :
           a # b => routesRegular[a].code # routesRegular[b].code
    /\ \A a, b \in 1..Len(routesFriday) :
           a # b => routesFriday[a].code # routesFriday[b].code
    /\ \A k \in 1..Len(AllRoutes) : AllRoutes[k].code # <<>>

(* C5, amended: every route's code is non-empty: it is the trimmed cell 0 of
   its opening row and starts with R or F and a digit.  Codes need not be
   unique: a list holds as many routes with a given code as opening rows
   with that code were processed in its mode. *)
CodeOfOpeningRow ==
    /\ \A k \in 1..Len(AllRoutes) :
           /\ AllRoutes[k].code # <<>>
           /\ looksLikeRouteCode(AllRoutes[k].code)
           /\ AllRoutes[k].code = TrimmedCell(rows[AllRoutes[k].row + 1].cells, 0)
    /\ \A k \in 1..Len(routesRegular) :
           CodeCount(routesRegular, routesRegular[k].code)
               = Cardinality(OpeningRows("regular", routesRegular[k].code))
    /\ \A k \in 1..Len(routesFriday) :
           CodeCount(routesFriday, routesFriday[k].code)
               = Cardinality(OpeningRows("friday", routesFriday[k].code))

(* two returned routes of one list with the same code *)
CodeOfOpeningRowWitness ==
    /\ Done
    /\ \E a, b \in 1..Len(routesFriday) :
           a # b /\ routesFriday[a].code = routesFriday[b].code

(***************************************************************************)
(* Properties of normalizeTime (under TimeSpec).                           *)
(***************************************************************************)
Returned == pc = "returned"

(* round(a / b): the integer nearest to a / b, the upper one of two *)
Nearest(a, b) ==
    CHOOSE m \in 0..(a \div b + 1) : 2 * m * b - b <= 2 * a /\ 2 * a < 2 * m * b + b

TwoDigits(m) == <<Digits[(m \div 10) + 1], Digits[(m % 10) + 1]>>

(* the 12-hour rendering of hour h and minute m, as section 4.2 words it *)
TwelveHour(h, m) ==
    (IF h = 0 \/ h = 12 THEN <<"1", "2">> ELSE NatToString(h % 12))
        \o <<":">> \o TwoDigits(m) \o <<" ">>
        \o (IF h < 12 THEN <<"A", "M">> ELSE <<"P", "M">>)

(* C9: for a number v with 0 <= v < 1, normalizeTime(v) is the 12-hour
   rendering of m = round(v * 1440) minutes since midnight (hour m div 60,
   minute m mod 60), and it is a time of the same day: a value just below 1
   is rendered close to midnight, not as noon. *)
DayFractionRendering ==
    (Returned /\ tin.t = "num" /\ tin.n >= 0 /\ tin.n < Scale) =>
        LET m == Nearest(tin.n * 1440, Scale)
        IN  /\ tout = TwelveHour(m \div 60, m % 60)
            /\ m \div 60 < 24
            /\ (tin.n > Scale - 10) => tout # <<"1", "2", ":", "0", "0", " ", "P", "M">>

(* C10: for a number v with 1 < v < 24, normalizeTime(v) is the 12-hour
   rendering of hour floor(v) and minute round((v - floor(v)) * 60);
   normalizeTime(18.5) = "6:30 PM". *)
BareHourRendering ==
    (Returned /\ tin.t = "num" /\ tin.n > Scale /\ tin.n < 24 * Scale) =>
        LET h == CHOOSE k \in 1..23 : k * Scale <= tin.n /\ tin.n < (k + 1) * Scale
            m == Nearest((tin.n - h * Scale) * 60, Scale)
        IN  /\ tout = TwelveHour(h, m)
            /\ (tin.n = 185000) => tout = <<"6", ":", "3", "0", " ", "P", "M">>

(* normalizeTime(18.5) has returned "6:30 PM" *)
BareHourWitness ==
    /\ Returned /\ tin = Num(185000)
    /\ tout = <<"6", ":", "3", "0", " ", "P", "M">>

(* the words of s: leading and trailing whitespace dropped, every run of
   whitespace between two words given as one space *)
Squeezed(s) ==
    LET keep == {k \in 1..Len(s) :
                    \/ ~IsSpace(s[k])
                    \/ /\ k < Len(s)
                       /\ ~IsSpace(s[k + 1])
                       /\ \E m \in 1..(k - 1) : ~IsSpace(s[m])}
        nth(j) == CHOOSE k \in keep : Cardinality({m \in keep : m <= k}) = j
    IN  [j \in 1..Cardinality(keep) |->
            IF IsSpace(s[nth(j)]) THEN " " ELSE s[nth(j)]]

AllDigits(s) == \A k \in 1..Len(s) : IsDigit(s[k])

Meridiem(s) ==
    /\ Len(s) = 2
    /\ s[1] \in {"a", "A", "p", "P"}
    /\ s[2] \in {"m", "M"}

ContainsTo(w) ==
    \E k \in 1..(Len(w) - 1) : w[k] \in {"t", "T"} /\ w[k + 1] \in {"o", "O"}

(* w is an hour of d digits, a dot, two digits of minutes, whitespace or
   nothing, and AM or PM in any case *)
DottedShape(w, d) ==
    /\ Len(w) >= d + 5
    /\ AllDigits(SubSeq(w, 1, d))
    /\ w[d + 1] = "."
    /\ AllDigits(SubSeq(w, d + 2, d + 3))
    /\ \A k \in (d + 4)..(Len(w) - 2) : IsSpace(w[k])
    /\ Meridiem(SubSeq(w, Len(w) - 1, Len(w)))

(* w is H:MM or H:MM AM/PM, the hour of one or two digits, the suffix in any
   case and after at most one space *)
ClockShape(w) ==
    \E d \in 1..2 :
        /\ Len(w) >= d + 3
        /\ AllDigits(SubSeq(w, 1, d))
        /\ w[d + 1] = ":"
        /\ AllDigits(SubSeq(w, d + 2, d + 3))
        /\ \/ Len(w) = d + 3
           \/ Len(w) = d + 5 /\ Meridiem(SubSeq(w, d + 4, d + 5))
           \/ Len(w) = d + 6 /\ IsSpace(w[d + 4]) /\ Meridiem(SubSeq(w, d + 5, d + 6))

s605PM == <<"6", ":", "0", "5", " ", "P", "M">>

(* C11: for a string, normalizeTime takes the string with its whitespace
   runs collapsed to single spaces and trimmed; if that contains "to" in
   any case it is the result; otherwise a dotted H.MM(AM|PM) gives
   "H:MM AM" or "H:MM PM", an H:MM or H:MM AM/PM is given in upper case, and
   anything else is the result unchanged.  "5:30 to 6:00 PM" comes back
   unchanged and "6.05pm" gives "6:05 PM". *)
StringNormalization ==
    (Returned /\ tin.t = "str") =>
        LET w == Squeezed(tin.s)
        IN  /\ IF ContainsTo(w) THEN tout = w
               ELSE IF \E d \in 1..2 : DottedShape(w, d)
               THEN LET d == CHOOSE e \in 1..2 : DottedShape(w, e)
                    IN  tout = toUpperCase(SubSeq(w, 1, d) \o <<":">>
                                   \o SubSeq(w, d + 2, d + 3) \o <<" ">>
                                   \o SubSeq(w, Len(w) - 1, Len(w)))
               ELSE IF ClockShape(w) THEN tout = toUpperCase(w)
               ELSE tout = w
            /\ (tin.s = s530to600PM) => tout = s530to600PM
            /\ (tin.s = s605pm) => tout = s605PM

(* normalizeTime("6.05pm") has returned "6:05 PM" *)
StringNormalizationWitness ==
    /\ Returned /\ tin = Str(s605pm)
    /\ tout = s605PM

DigitValue(c) == CHOOSE d \in 0..9 : Digits[d + 1] = c

(* the number a string of digits writes *)
RECURSIVE DigitsValue(_)
DigitsValue(s) ==
    IF s = <<>> THEN 0
    ELSE 10 * DigitsValue(SubSeq(s, 1, Len(s) - 1)) + DigitValue(s[Len(s)])

RECURSIVE PowerOfTen(_)
PowerOfTen(k) == IF k = 0 THEN 1 ELSE 10 * PowerOfTen(k - 1)

(* s is the plain decimal writing of the number n / Scale: an optional minus
   sign, the whole part without leading zeros and, when the number is not
   whole, a point and the fraction without trailing zeros *)
PlainNumber(s, n) ==
    /\ s # <<>>
    /\ LET neg == s[1] = "-"
           body == IF neg THEN Tail(s) ELSE s
           dots == {k \in 1..Len(body) : body[k] = "."}
           whole == IF dots = {} THEN body
                    ELSE SubSeq(body, 1, (CHOOSE k \in dots : TRUE) - 1)
           frac == IF dots = {} THEN <<>>
                   ELSE SubSeq(body, (CHOOSE k \in dots : TRUE) + 1, Len(body))
       IN  /\ Cardinality(dots) <= 1
           /\ whole # <<>> /\ AllDigits(whole)
           /\ Len(whole) > 1 => whole[1] # "0"
           /\ AllDigits(frac)
           /\ dots # {} => (frac # <<>> /\ frac[Len(frac)] # "0")
           /\ PowerOfTen(Len(frac)) <= Scale
           /\ neg <=> n < 0
           /\ (IF neg THEN -n ELSE n)
                  = DigitsValue(whole) * Scale
                        + DigitsValue(frac) * (Scale \div PowerOfTen(Len(frac)))

(* C12: for a number that is exactly 1, or 24 or more, or negative,
   normalizeTime returns the plain decimal writing of the number, not a
   time; for every argument it returns a string, and for an empty string or
   undefined the empty string. *)
NumericGapFallback ==
    Returned =>
        /\ (tin.t = "num" /\ (tin.n = Scale \/ tin.n >= 24 * Scale \/ tin.n < 0))
               => PlainNumber(tout, tin.n)
        /\ DOMAIN tout = 1..Len(tout)
        /\ \A k \in 1..Len(tout) : tout[k] \in STRING
        /\ (tin = Undef \/ tin = Str(<<>>)) => tout = <<>>
        /\ (tin = Num(Scale)) => tout = <<"1">>
        /\ (tin = Num(24 * Scale)) => tout = <<"2", "4">>
        /\ (tin = Num(-5000)) => tout = <<"-", "0", ".", "5">>

(* normalizeTime(24.5) has returned "24.5" *)
NumericGapWitness ==
    /\ Returned /\ tin = Num(245000)
    /\ tout = <<"2", "4", ".", "5">>

(* C19: for a number v in [0,1) or (1,24), normalizeTime(v) is "H:MM AM" or
   "H:MM PM" with the hour H in 1..12 and the two-digit minutes MM in
   00..59: never a minute of 60, never an hour outside 1..12. *)
WellFormedNumericTime ==
    (Returned /\ tin.t = "num"
        /\ ((tin.n >= 0 /\ tin.n < Scale) \/ (tin.n > Scale /\ tin.n < 24 * Scale)))
    => \E h \in 1..12 : \E m \in 0..59 : \E half \in {<<"A", "M">>, <<"P", "M">>} :
           tout = NatToString(h) \o <<":">> \o TwoDigits(m) \o <<" ">> \o half

(***************************************************************************)
(* Properties of the page (under UiSpec).                                  *)
(***************************************************************************)
ShownList == IF els.toggleFriday THEN state.friday ELSE state.regular

(* C6 as stated: a route is badged Friday iff its code begins with "F" or
   it was collected in Friday mode; every route of the friday list is shown
   as Friday, whatever its code. *)
FridayBadge ==
    \A k \in 1..Len(els.results.cards) :
        LET r == els.results.filtered[k]
        IN  (els.results.cards[k].badge = "Friday")
                <=> (r.code[1] = "F" \/ r \in Elems(state.friday))

(* the text searched for a route: code, name, details and all times, joined
   by single spaces, in lower case *)
RECURSIVE Spaced(_)
Spaced(parts) ==
    IF Len(parts) = 0 THEN <<>>
    ELSE IF Len(parts) = 1 THEN toLowerCase(parts[1])
    ELSE toLowerCase(parts[1]) \o <<" ">> \o Spaced(Tail(parts))

Keeps(r) ==
    /\ els.selectRoute = <<>> \/ r.code = els.selectRoute
    /\ \/ els.inputSearch = <<>>
       \/ includes(Spaced(<<r.code, r.name, r.details>> \o r.toDSC \o r.fromDSC),
                   toLowerCase(els.inputSearch))

Kept == {k \in 1..Len(ShownList) : Keeps(ShownList[k])}

(* C7: the filtered result is the order-preserving subsequence of the list
   holding exactly the routes that satisfy both conditions (code selected
   or none selected, text found or none given); an empty result is shown as
   "no matches"; filter(list, "R1", "main") = [R1], filter(list, "", "zzz")
   = []. *)
FilterContract ==
    els.results.shown # "nothing" =>
        LET f == els.results.filtered
        IN  /\ Len(f) = Cardinality(Kept)
            /\ \A k \in Kept : f[Cardinality({m \in Kept : m <= k})] = ShownList[k]
            /\ (f = <<>>) <=> (els.results.shown = "nomatch")
            /\ Len(els.results.cards) = Len(f)
            /\ (els.selectRoute = <<>> /\ els.inputSearch = sZzz) => f = <<>>

(* the list is [R1 "Main", R2 "Campus"], R1 is selected, "Main" is searched,
   and the result is [R1] *)
FilterWitness ==
    /\ Len(ShownList) = 2
    /\ ShownList[1].code = sR1 /\ ShownList[1].name = sMain
    /\ ShownList[2].code = sR2 /\ ShownList[2].name = sCampus
    /\ els.selectRoute = sR1
    /\ toLowerCase(els.inputSearch) = sMainLower
    /\ els.results.filtered = <<ShownList[1]>>

(***************************************************************************)
(* Totality of parseSchedule (under Spec).                                 *)
(***************************************************************************)
IsRoute(r) ==
    DOMAIN r = {"code", "name", "details", "toDSC", "fromDSC", "display", "row"}

(* some branch of the loop body takes the row at hand, or the loop is over:
   the disjunction of the guards of the steps *)
CanStep ==
    \/ i = Len(rows)
    \/ /\ i < Len(rows)
       /\ ThisKind \in {"empty", "marker", "header", "open", "continuation",
                         "ignored"}

NeverStuck ==
    /\ pc \in {"loop", "done"}
    /\ i \in 0..Len(rows)
    /\ pc = "loop" => CanStep
    /\ Done => /\ i = Len(rows)
               /\ \A k \in 1..Len(AllRoutes) : IsRoute(AllRoutes[k])
               /\ (rows = <<>>) => (routesRegular = <<>> /\ routesFriday = <<>>)

(* C8: for every sequence of rows (each missing, empty or of up to 5 cells
   that are strings, numbers or empty) parseSchedule raises no error and
   terminates: no row leaves it without a step to take, every step moves to
   the next row or returns, and it returns two lists of routes, both empty
   for the empty sequence. *)
ParserTotal ==
    /\ []NeverStuck
    /\ [][pc = "loop" /\ (i' = i + 1 \/ (i = Len(rows) /\ pc' = "done"))]_vars

(* a call that has returned from rows holding a missing row, an empty row
   and a row with a number *)
ParserTotalWitness ==
    /\ Done
    /\ \E j \in 1..Len(rows) : rows[j].isNull
    /\ \E j \in 1..Len(rows) : rows[j] = Row(<<>>)
    /\ \E j \in 1..Len(rows) : Cell(rows[j].cells, 4).t = "num"

(***************************************************************************)
(* Properties of the classification of rows (under Spec).                  *)
(***************************************************************************)
(* the text of cell k of input row j (both 0-based), surrounding whitespace
   dropped; a missing row and a missing cell have the empty text *)
Text(j, k) == TrimmedCell(rows[j + 1].cells, k)

IsMarkerRow(j) == fridayMarker(Text(j, 0))

IsHeaderRow(j) == headerRegex(Text(j, 0)) \/ routeDetailsRegex(Text(j, 3))

HasRouteCode(j) == looksLikeRouteCode(Text(j, 0))

(* a route-opening row: a route code in cell 0, and neither a marker nor a
   header row *)
IsOpeningRow(j) == HasRouteCode(j) /\ ~IsMarkerRow(j) /\ ~IsHeaderRow(j)

(* the loop is at a row of the input *)
AtRow == pc = "loop" /\ i < Len(rows)

(* among rows 0..k-1 there is a marker or header row with no opening row
   after it *)
Cleared(k) ==
    \E j \in 0..(k - 1) :
        /\ IsMarkerRow(j) \/ IsHeaderRow(j)
        /\ \A m \in (j + 1)..(k - 1) : ~IsOpeningRow(m)

(* C13: a Friday-schedule marker row or a column-header row clears the
   current-route reference; a row with empty cell 0 that follows such a row
   with no opening row in between appends nothing to any route: every route
   keeps exactly the times it had. *)
MarkerHeaderClears ==
    /\ []((pc = "loop" /\ Cleared(i)) => current = NoCurrent)
    /\ [][(AtRow /\ Cleared(i) /\ Text(i, 0) = <<>>)
              => UNCHANGED <<routesRegular, routesFriday>>]_vars

(* a returned call where an opening row with a time was followed by a
   header or marker row and then by a row with empty cell 0 and a time, and
   the route holds the time of its opening row only *)
MarkerHeaderClearsWitness ==
    /\ Done
    /\ \E j, k, m \in 0..(Len(rows) - 1) :
           /\ j < k /\ k < m
           /\ IsOpeningRow(j) /\ Truthy(InputCell(j, 1))
           /\ IsMarkerRow(k) \/ IsHeaderRow(k)
           /\ \A n \in (j + 1)..m : ~IsOpeningRow(n)
           /\ Text(m, 0) = <<>> /\ Truthy(InputCell(m, 1))
           /\ RouteById(j).toDSC = <<normalizeTime(InputCell(j, 1))>>

(* C14: a row whose cell 0 matches the Friday-marker pattern or the
   "route no" pattern, or whose cell 3 matches "route details", creates no
   route and gives no time to any route, also when its cell 0 matches the
   route-code pattern as well ("R1" with "Route Details" in cell 3,
   "F1 Friday Schedule"). *)
ClassificationPriority ==
    /\ [](\A j \in 0..(Len(rows) - 1) :
              (IsMarkerRow(j) \/ IsHeaderRow(j)) => j \notin RouteIds)
    /\ [][(AtRow /\ (IsMarkerRow(i) \/ IsHeaderRow(i)))
              => UNCHANGED <<routesRegular, routesFriday>>]_vars

(* a returned call whose rows held "R1" with "Route Details" in cell 3 and a
   time, and "F1 Friday Schedule" with a time, after an opening row *)
ClassificationPriorityWitness ==
    /\ Done
    /\ \E j, k, m \in 0..(Len(rows) - 1) :
           /\ j < k /\ j < m
           /\ IsOpeningRow(j)
           /\ HasRouteCode(k) /\ IsHeaderRow(k) /\ Truthy(InputCell(k, 1))
           /\ HasRouteCode(m) /\ IsMarkerRow(m) /\ Truthy(InputCell(m, 1))
           /\ Len(AllRoutes) = Cardinality({n \in 0..(Len(rows) - 1) : IsOpeningRow(n)})

(* a cell that holds nothing: it is missing or is the empty string *)
EmptyCell(c) == c.t = "undef" \/ (c.t = "str" /\ c.s = <<>>)

(* all five cells of input row j are empty (a missing row has no cells) *)
IsBlankRow(j) == \A k \in 0..4 : EmptyCell(InputCell(j, k))

(* cell 0 of input row j is non-empty and matches none of the marker,
   header and route-code patterns, nor does cell 3 match "route details" *)
IsUnmatchedRow(j) ==
    /\ Text(j, 0) # <<>>
    /\ ~IsMarkerRow(j) /\ ~IsHeaderRow(j) /\ ~HasRouteCode(j)

(* C15: a row whose cell 0 is non-empty and matches none of the patterns,
   and a row whose five cells are all empty, create no route, append no
   time and leave the mode and the current-route reference unchanged; a
   continuation row after such rows still appends to the route opened
   before them. *)
IgnoredRowsKeepState ==
    /\ [][(AtRow /\ (IsUnmatchedRow(i) \/ IsBlankRow(i)))
              => UNCHANGED <<mode, current, routesRegular, routesFriday>>]_vars
    /\ [](\A j, m \in 0..(i - 1) :
              ( /\ j < m
                /\ IsOpeningRow(j)
                /\ \A k \in (j + 1)..(m - 1) : IsUnmatchedRow(k) \/ IsBlankRow(k)
                /\ Text(m, 0) = <<>> /\ ~IsHeaderRow(m)
                /\ Truthy(InputCell(m, 1)) )
              => normalizeTime(InputCell(m, 1)) \in Elems(RouteById(j).toDSC))

(* a returned call where an opening row was followed by an unmatched row
   with a time and by a blank row, then by a continuation row with a return
   time of its own, which the route holds *)
IgnoredRowsWitness ==
    /\ Done
    /\ \E j, k, b, m \in 0..(Len(rows) - 1) :
           /\ j < k /\ j < b /\ k < m /\ b < m
           /\ IsOpeningRow(j)
           /\ IsUnmatchedRow(k) /\ Truthy(InputCell(k, 1))
           /\ IsBlankRow(b)
           /\ Text(m, 0) = <<>> /\ Truthy(InputCell(m, 4))
           /\ normalizeTime(InputCell(m, 4)) \in Elems(RouteById(j).fromDSC)
           /\ normalizeTime(InputCell(m, 4)) # normalizeTime(InputCell(j, 4))

IsPrefix(p, q) == Len(p) <= Len(q) /\ SubSeq(q, 1, Len(p)) = p

(* route b is route a but for times appended to its two lists *)
OnlyTimesAppended(a, b) ==
    /\ b.code = a.code /\ b.name = a.name /\ b.details = a.details
    /\ b.display = a.display /\ b.row = a.row
    /\ IsPrefix(a.toDSC, b.toDSC)
    /\ IsPrefix(a.fromDSC, b.fromDSC)

(* the route opened last *)
LastOpened == CHOOSE id \in RouteIds : \A o \in RouteIds : o <= id

(* new is old with no route added or removed and no route changed, but for
   times appended to the route opened last when there is a current route *)
ListFrame(old, new) ==
    /\ Len(new) = Len(old)
    /\ \A k \in 1..Len(old) :
           \/ new[k] = old[k]
           \/ /\ current # NoCurrent
              /\ old[k].row = LastOpened
              /\ OnlyTimesAppended(old[k], new[k])

(* C16: a row with empty cell 0, processed while a current route exists,
   creates no route and changes nothing but the toDSC and fromDSC of the
   route opened last: its code, name and details and every field of every
   other route of either list are as before; processed while there is no
   current route, it changes nothing at all. *)
ContinuationFrame ==
    /\ []((pc = "loop" /\ current # NoCurrent) => CurrentRoute.row = LastOpened)
    /\ [][(AtRow /\ Text(i, 0) = <<>>)
              => /\ ListFrame(routesRegular, routesRegular')
                 /\ ListFrame(routesFriday, routesFriday')
                 /\ mode' = mode
                 /\ (current = NoCurrent)
                        => UNCHANGED <<current, routesRegular, routesFriday>>]_vars

(* a returned call where two routes were opened and a continuation row
   followed: the second route holds the row's return time, the first one
   does not *)
ContinuationFrameWitness ==
    /\ Done
    /\ \E o, j, m \in 0..(Len(rows) - 1) :
           /\ o < j /\ j < m
           /\ IsOpeningRow(o) /\ IsOpeningRow(j)
           /\ \A n \in (j + 1)..(m - 1) : IsBlankRow(n) \/ IsUnmatchedRow(n)
           /\ Text(m, 0) = <<>> /\ ~IsHeaderRow(m) /\ Truthy(InputCell(m, 4))
           /\ normalizeTime(InputCell(m, 4)) \in Elems(RouteById(j).fromDSC)
           /\ normalizeTime(InputCell(m, 4)) \notin Elems(RouteById(o).fromDSC)

(* the opening rows among the rows processed so far *)
OpeningRowsSoFar == {j \in 0..(i - 1) : IsOpeningRow(j)}

InOpeningOrder(list) ==
    \A a, b \in 1..Len(list) : a < b => list[a].row < list[b].row

(* C17: at every point of the pass and after it, the routes of the two
   lists together are exactly the routes of the opening rows processed so
   far, one for each, and within each list they stand in the order of
   their opening rows. *)
RoutesOfOpeningRows ==
    /\ Len(routesRegular) + Len(routesFriday) = Cardinality(OpeningRowsSoFar)
    /\ RouteIds = OpeningRowsSoFar
    /\ InOpeningOrder(routesRegular)
    /\ InOpeningOrder(routesFriday)

(* a returned call with two routes in the regular list and one in the
   friday list, among rows that are not all opening rows *)
RoutesOfOpeningRowsWitness ==
    /\ Done
    /\ Len(routesRegular) = 2
    /\ Len(routesFriday) = 1
    /\ Len(rows) > 3

(* the first Friday-schedule marker row is among the rows 0..k-1 *)
AfterFirstMarker(k) == \E j \in 0..(k - 1) : IsMarkerRow(j)

(* C18: the mode is regular at the start and, once it is friday, no row of
   any kind makes it regular again; so every route of the regular list was
   opened by a row before the first Friday marker and every route opened
   after that marker is in the friday list. *)
ModeMonotonic ==
    /\ []((pc = "loop" /\ i = 0) => mode = "regular")
    /\ [][mode = "friday" => mode' = "friday"]_vars
    /\ [](/\ \A k \in 1..Len(routesRegular) :
                 ~AfterFirstMarker(routesRegular[k].row)
          /\ \A j \in OpeningRowsSoFar :
                 AfterFirstMarker(j)
                     => \E k \in 1..Len(routesFriday) : routesFriday[k].row = j)

(* a returned call where a route was opened, then came the marker, then a
   header row, then an opening row: one route in each list *)
ModeMonotonicWitness ==
    /\ Done
    /\ Len(rows) = 4
    /\ IsOpeningRow(0) /\ IsMarkerRow(1) /\ IsHeaderRow(2) /\ IsOpeningRow(3)
    /\ Len(routesRegular) = 1 /\ routesRegular[1].row = 0
    /\ Len(routesFriday) = 1 /\ routesFriday[1].row = 3

(* C20: no toDSC and no fromDSC of a returned route holds the empty string;
   a time cell that holds only whitespace gives no entry. *)
NoBlankTimes ==
    Done => \A k \in 1..Len(AllRoutes) :
                /\ <<>> \notin Elems(AllRoutes[k].toDSC)
                /\ <<>> \notin Elems(AllRoutes[k].fromDSC)

====
